---- MODULE Spec2Model ----
(***************************************************************************)
(* The blog content store of BlogVerse (contexts/BlogContext): the         *)
(* in-memory post collection `blogs`, the module-level full-content cache  *)
(* `fullContentStorage`, and the operations the provider exposes.          *)
(*                                                                         *)
(* Strings that the code only copies (titles, user names, ...) are TLA+    *)
(* strings.  A post body is a sequence of runs, because calculateReadTime  *)
(* looks inside it:                                                        *)
(*    <<"tag", n>>    a markup tag "<" + n characters + ">"                *)
(*    <<"sp", n>>     n whitespace characters                              *)
(*    <<"words", n>>  n one-letter words separated by single blanks        *)
(* Dates are integers on one time line, in ticks of the wall clock.        *)
(* `null` (no acting user) is the empty sequence, a user u is <<u>>.       *)
(* `query` and `result` hold the arguments and the value of the last call  *)
(* of a query function; `sortBy` and `sortOrder` are the provider's sort    *)
(* settings.  `storage` is the item "blogverse_blogs" of the local storage  *)
(* and `effects` the effects React has scheduled and not yet run;          *)
(* `currentIndex`, `isAutoPlaying` and `progress` are the state of the     *)
(* spotlight carousel.                                                     *)
(***************************************************************************)
EXTENDS Integers, Sequences, FiniteSets, TLC

VARIABLES blogs, fullContentStorage, user, now, outcome, steps,
          sortBy, sortOrder, query, result,
          storage, effects, currentIndex, isAutoPlaying, progress

vars == <<blogs, fullContentStorage, user, now, outcome, steps, sortBy, sortOrder, query, result, storage, effects, currentIndex, isAutoPlaying, progress>>

\* Bound of the exploration: number of steps taken from the initial state.
MaxOps == 2

-----------------------------------------------------------------------------
(* Generic helpers                                                         *)

Range(s) == {s[i] : i \in DOMAIN s}

\* Object spread { ...a, ...b }: the fields of b override those of a.
Spread(a, b) ==
  [f \in (DOMAIN a) \cup (DOMAIN b) |-> IF f \in DOMAIN b THEN b[f] ELSE a[f]]

\* Math.ceil(a / b) for a >= 0, b > 0
Ceil(a, b) == (a + b - 1) \div b

-----------------------------------------------------------------------------
(* Post bodies and calculateReadTime                                       *)

Tag(n)   == <<"tag", n>>
Sp(n)    == <<"sp", n>>
Words(n) == <<"words", n>>

\* content.length
RECURSIVE ContentLength(_)
ContentLength(c) ==
  IF c = <<>> THEN 0
  ELSE (CASE Head(c)[1] = "tag"   -> Head(c)[2] + 2
          [] Head(c)[1] = "sp"    -> Head(c)[2]
          [] Head(c)[1] = "words" -> 2 * Head(c)[2] - 1)
       + ContentLength(Tail(c))

\* content.replace(/<[^>]*>/g, '')
StripTags(c) == SelectSeq(c, LAMBDA r : r[1] # "tag")

\* Number of maximal whitespace runs of a tag-free text: the number of
\* separators String.prototype.split(/\s+/) finds.
RECURSIVE SeparatorCount(_, _)
SeparatorCount(c, inSpace) ==
  IF c = <<>> THEN 0
  ELSE IF Head(c)[1] = "sp"
       THEN (IF inSpace THEN 0 ELSE 1) + SeparatorCount(Tail(c), TRUE)
       ELSE (Head(c)[2] - 1) + SeparatorCount(Tail(c), FALSE)

\* text.split(/\s+/).length: one more piece than separators; the pieces
\* before a leading and after a trailing separator are empty strings, and
\* the empty text splits into one empty piece.
SplitLength(c) == SeparatorCount(c, FALSE) + 1

WordsPerMinute == 200

calculateReadTime(content) == Ceil(SplitLength(StripTags(content)), WordsPerMinute)

\* `updates.content ? ... : ...`: the empty string is falsy.
Truthy(content) == content # <<>>

-----------------------------------------------------------------------------
(* Seed data                                                               *)

SampleBlog(id, title, words, excerpt, authorId, authorName, category, tags, likes, views, created, readTime) ==
  [id |-> id, title |-> title,
   content |-> <<Tag(2), Words(words), Tag(2)>>,
   excerpt |-> excerpt,
   authorId |-> authorId, authorName |-> authorName,
   authorAvatar |-> "https://images.unsplash.com/" \o authorId,
   category |-> category, tags |-> tags, likes |-> likes, views |-> views,
   comments |-> <<>>, createdAt |-> created, updatedAt |-> created,
   readTime |-> readTime,
   isSpotlight |-> id \in {"1", "2", "3"}]

\* createdAt of the seed posts: January 2024, counted from 2024-01-01.
SeedTime(day, hour, minute) == ((day - 1) * 24 + hour) * 60 + minute

sampleBlogs ==
  << SampleBlog("1", "The Future of Web Development: Trends to Watch in 2024", 87,
                "Exploring the latest trends shaping web development in 2024",
                "author1", "Sarah Chen", "Programming",
                <<"Web Development", "AI", "WebAssembly", "Trends">>,
                <<"user1", "user2", "user3">>, 2547, SeedTime(15, 10, 30), 8),
     SampleBlog("2", "Building Scalable Design Systems: A Complete Guide", 33,
                "Learn how to create and maintain design systems that scale",
                "author2", "Marcus Johnson", "Design",
                <<"Design Systems", "UI/UX", "Figma", "Components">>,
                <<"user3", "user4">>, 1892, SeedTime(12, 14, 20), 12),
     SampleBlog("3", "The Rise of AI in Creative Industries", 36,
                "Discover how AI is transforming creative industries",
                "author3", "Emma Thompson", "Technology",
                <<"AI", "Creativity", "Art", "Innovation">>,
                <<"user1", "user5">>, 1654, SeedTime(10, 9, 15), 6),
     SampleBlog("4", "Sustainable Travel: Exploring the World Responsibly", 22,
                "Learn how to explore the world while minimizing your impact",
                "author4", "David Kim", "Travel",
                <<"Sustainability", "Environment", "Responsible Travel">>,
                <<>>, 823, SeedTime(8, 16, 45), 10),
     SampleBlog("5", "The Psychology of User Experience Design", 24,
                "Explore the psychological principles behind great UX design",
                "author5", "Lisa Wang", "Design",
                <<"UX", "Psychology", "User Research", "Interface Design">>,
                <<"user2", "user4", "user6">>, 1234, SeedTime(5, 11, 20), 7) >>

-----------------------------------------------------------------------------
(* Session context and inputs                                              *)

User(id, username) == [id |-> id, username |-> username,
                       avatar |-> "avatar:" \o id]

Users == { User("user1", "Ada"), User("admin1", "Root") }

\* useAuth().user: null or a user
UserValues == {<<>>} \cup {<<u>> : u \in Users}

\* The wall clock when the provider mounts (after every seed date).
StartTime == 100000

\* The outcome of the last call, as its caller and the UI see it:
\* the error thrown to the caller ("" if the call returned), the value
\* returned, and the kind of toast shown ("none", "error", "success").
Outcome(op, thrown, ret, toast) ==
  [op |-> op, thrown |-> thrown, ret |-> ret, toast |-> toast]

-----------------------------------------------------------------------------
(* The operations of BlogProvider, as functions of the state they read     *)

\* `${prefix}_${Date.now()}_${Math.random().toString(36).substr(2, 9)}`
GenId(prefix, t, suffix) == prefix \o "_" \o ToString(t) \o "_" \o suffix

\* createBlog with the full content cached before the login check.
createBlogCachesFirst(prev, cache, u, blogData, reads, draw) ==
  LET blogId == GenId("blog", reads[1], draw.suffix)
      stored == IF ContentLength(blogData.content) > 1000
                THEN (blogId :> blogData.content) @@ cache
                ELSE cache
  IN IF u = <<>>
     THEN [blogs |-> prev, cache |-> stored,
           out |-> Outcome("createBlog", "User must be logged in to create blog",
                           "", "none")]
     ELSE [blogs |-> <<Spread(blogData,
                        [id |-> blogId, authorId |-> u[1].id,
                         authorName |-> u[1].username,
                         authorAvatar |-> u[1].avatar, likes |-> <<>>,
                         views |-> draw.views, comments |-> <<>>,
                         createdAt |-> reads[2], updatedAt |-> reads[3],
                         readTime |-> calculateReadTime(blogData.content)])>>
                      \o prev,
           cache |-> stored,
           out |-> Outcome("createBlog", "", blogId, "success")]

\* createBlog: `reads` are the three successive readings of the clock
\* (Date.now(), new Date(), new Date()), `draw` the two random draws.
createBlog(prev, cache, u, blogData, reads, draw) ==
  IF u = <<>>
  THEN [blogs |-> prev, cache |-> cache,
        out |-> Outcome("createBlog", "User must be logged in to create blog",
                        "", "none")]
  ELSE LET blogId  == GenId("blog", reads[1], draw.suffix)
           newBlog == Spread(blogData,
                        [id |-> blogId,
                         authorId |-> u[1].id,
                         authorName |-> u[1].username,
                         authorAvatar |-> u[1].avatar,
                         likes |-> <<>>,
                         views |-> draw.views,
                         comments |-> <<>>,
                         createdAt |-> reads[2],
                         updatedAt |-> reads[3],
                         readTime |-> calculateReadTime(blogData.content)])
       IN [blogs |-> <<newBlog>> \o prev,
           cache |-> IF ContentLength(blogData.content) > 1000
                     THEN (blogId :> blogData.content) @@ cache
                     ELSE cache,
           out |-> Outcome("createBlog", "", blogId, "success")]

\* getFullBlogContent: the cached body if there is one, otherwise the content
\* of the first post with the id, otherwise the empty string.
getFullBlogContent(bs, cache, blogId) ==
  IF blogId \in DOMAIN cache /\ Truthy(cache[blogId])
  THEN cache[blogId]
  ELSE IF \E i \in DOMAIN bs : bs[i].id = blogId
       THEN LET i == CHOOSE i \in DOMAIN bs :
                       /\ bs[i].id = blogId
                       /\ \A j \in 1 .. i - 1 : bs[j].id # blogId
            IN IF Truthy(bs[i].content) THEN bs[i].content ELSE <<>>
       ELSE <<>>

\* updateBlog: the updater passed to setBlogs; t is the reading of the clock.
updateBlog(prev, id, updates, t) ==
  [i \in DOMAIN prev |-> LET blog == prev[i] IN
    IF blog.id = id
    THEN Spread(Spread(blog, updates),
                [updatedAt |-> t,
                 readTime |-> IF "content" \in DOMAIN updates /\ Truthy(updates.content)
                              THEN calculateReadTime(updates.content)
                              ELSE blog.readTime])
    ELSE blog]

\* deleteBlog: filter the collection and drop the cache entry.
deleteBlog(prev, cache, id) ==
  [blogs |-> SelectSeq(prev, LAMBDA blog : blog.id # id),
   cache |-> [k \in (DOMAIN cache) \ {id} |-> cache[k]]]

\* newLikes without the hasLiked test: the like is always appended.
newLikesAlwaysAppend(likes, userId) == Append(likes, userId)

\* newLikes that leaves the likes alone when the user has liked the post.
newLikesNeverRemoves(likes, userId) ==
  IF userId \in Range(likes) THEN likes ELSE Append(likes, userId)

\* The new likes of the post toggleLikeBlog addresses.
newLikes(likes, userId) ==
  IF userId \in Range(likes)
  THEN SelectSeq(likes, LAMBDA x : x # userId)
  ELSE Append(likes, userId)

\* toggleLikeBlog that also moves updatedAt of the post forward.
toggleLikeBlogTouches(prev, userId, id) ==
  [i \in DOMAIN prev |-> LET blog == prev[i] IN
    IF blog.id = id
    THEN Spread(blog, [likes |-> newLikes(blog.likes, userId),
                       updatedAt |-> blog.updatedAt + 1])
    ELSE blog]

\* toggleLikeBlog: the updater passed to setBlogs (user is non-null).
toggleLikeBlog(prev, userId, id) ==
  [i \in DOMAIN prev |-> LET blog == prev[i] IN
    IF blog.id = id
    THEN Spread(blog, [likes |-> newLikes(blog.likes, userId)])
    ELSE blog]

\* The comment addComment builds; `reads` are the two readings of the clock.
\* newComment that binds an anonymous comment to the signed-in poster.
newCommentBound(u, content, isAnonymous, reads, suffix) ==
  [id |-> GenId("comment", reads[1], suffix),
   authorId |-> IF isAnonymous /\ u = <<>> THEN "anonymous" ELSE u[1].id,
   authorName |-> IF isAnonymous THEN "Anonymous" ELSE u[1].username,
   authorAvatar |-> IF isAnonymous THEN "undefined" ELSE u[1].avatar,
   content |-> content,
   createdAt |-> reads[2],
   isAnonymous |-> isAnonymous]

newComment(u, content, isAnonymous, reads, suffix) ==
  [id |-> GenId("comment", reads[1], suffix),
   authorId |-> IF isAnonymous THEN "anonymous" ELSE u[1].id,
   authorName |-> IF isAnonymous THEN "Anonymous" ELSE u[1].username,
   authorAvatar |-> IF isAnonymous THEN "undefined" ELSE u[1].avatar,
   content |-> content,
   createdAt |-> reads[2],
   isAnonymous |-> isAnonymous]

\* addComment: the updater passed to setBlogs.
addComment(prev, blogId, comment) ==
  [i \in DOMAIN prev |-> LET blog == prev[i] IN
    IF blog.id = blogId
    THEN Spread(blog, [comments |-> Append(blog.comments, comment)])
    ELSE blog]

\* user.id.startsWith('admin'), on the user ids of the model
StartsWithAdmin(userId) == userId \in {"admin1"}

\* deleteComment without the author-or-admin test: any signed-in user
\* removes the comment.
deleteCommentAnyUser(prev, userId, blogId, commentId) ==
  [i \in DOMAIN prev |-> LET blog == prev[i] IN
    IF blog.id = blogId
    THEN Spread(blog, [comments |-> SelectSeq(blog.comments, LAMBDA comment :
                         comment.id # commentId)])
    ELSE blog]

\* deleteComment: the updater passed to setBlogs (user is non-null).
deleteComment(prev, userId, blogId, commentId) ==
  [i \in DOMAIN prev |-> LET blog == prev[i] IN
    IF blog.id = blogId
    THEN Spread(blog, [comments |-> SelectSeq(blog.comments, LAMBDA comment :
                         comment.id # commentId
                         \/ (comment.authorId # userId /\ ~StartsWithAdmin(userId)))])
    ELSE blog]

\* incrementViews that counts the view on every post of the collection.
incrementViewsEverywhere(prev, id) ==
  [i \in DOMAIN prev |-> LET blog == prev[i] IN
    Spread(blog, [views |-> blog.views + 1])]

\* incrementViews: the updater passed to setBlogs.
incrementViews(prev, id) ==
  [i \in DOMAIN prev |-> LET blog == prev[i] IN
    IF blog.id = id THEN Spread(blog, [views |-> blog.views + 1]) ELSE blog]

-----------------------------------------------------------------------------
(* The query functions of BlogProvider                                     *)

UpperCase == <<"A", "B", "C", "D", "E", "F", "G", "H", "I", "J", "K", "L", "M", "N", "O", "P", "Q", "R", "S", "T", "U", "V", "W", "X", "Y", "Z">>
LowerCase == <<"a", "b", "c", "d", "e", "f", "g", "h", "i", "j", "k", "l", "m", "n", "o", "p", "q", "r", "s", "t", "u", "v", "w", "x", "y", "z">>

\* The lower-case form of one character.
LowerChar(ch) ==
  IF \E k \in DOMAIN UpperCase : UpperCase[k] = ch
  THEN LowerCase[CHOOSE k \in DOMAIN UpperCase : UpperCase[k] = ch]
  ELSE ch

\* String.prototype.toLowerCase: every character in its lower-case form
\* (computed half by half).
RECURSIVE toLowerCase(_)
toLowerCase(str) ==
  IF Len(str) = 0 THEN ""
  ELSE IF Len(str) = 1 THEN LowerChar(str)
  ELSE toLowerCase(SubSeq(str, 1, Len(str) \div 2))
         \o toLowerCase(SubSeq(str, Len(str) \div 2 + 1, Len(str)))

\* String.prototype.includes
includes(str, part) ==
  \E k \in 1 .. (Len(str) - Len(part) + 1) : SubSeq(str, k, k + Len(part) - 1) = part

\* n copies of a string (computed half by half)
RECURSIVE Repeat(_, _)
Repeat(str, n) ==
  IF n = 0 THEN ""
  ELSE IF n = 1 THEN str
  ELSE Repeat(str, n \div 2) \o Repeat(str, n - n \div 2)

\* The text of a post body: the characters its runs stand for.
RECURSIVE ContentText(_)
ContentText(c) ==
  IF c = <<>> THEN ""
  ELSE (CASE Head(c)[1] = "tag"   -> "<" \o Repeat("p", Head(c)[2]) \o ">"
          [] Head(c)[1] = "sp"    -> Repeat(" ", Head(c)[2])
          [] Head(c)[1] = "words" -> Repeat("w ", Head(c)[2] - 1) \o "w")
       \o ContentText(Tail(c))

\* searchBlogs that compares the fields as they are written, without
\* lower-casing them.
searchBlogsCaseSensitive(bs, text) ==
  SelectSeq(bs, LAMBDA blog :
    \/ includes(blog.title, text)
    \/ includes(blog.excerpt, text)
    \/ includes(ContentText(blog.content), text)
    \/ \E k \in DOMAIN blog.tags : includes(blog.tags[k], text)
    \/ includes(blog.category, text)
    \/ includes(blog.authorName, text))

\* searchBlogs
searchBlogs(bs, text) ==
  LET lowercaseQuery == toLowerCase(text)
  IN SelectSeq(bs, LAMBDA blog :
       \/ includes(toLowerCase(blog.title), lowercaseQuery)
       \/ includes(toLowerCase(blog.excerpt), lowercaseQuery)
       \/ includes(toLowerCase(ContentText(blog.content)), lowercaseQuery)
       \/ \E k \in DOMAIN blog.tags : includes(toLowerCase(blog.tags[k]), lowercaseQuery)
       \/ includes(toLowerCase(blog.category), lowercaseQuery)
       \/ includes(toLowerCase(blog.authorName), lowercaseQuery))

\* getBlogsByCategory that compares the categories without regard to case.
getBlogsByCategoryAnyCase(bs, category) ==
  SelectSeq(bs, LAMBDA blog : toLowerCase(blog.category) = toLowerCase(category))

\* getBlogsByCategory
getBlogsByCategory(bs, category) ==
  SelectSeq(bs, LAMBDA blog : blog.category = category)

\* getBlogsByTag
getBlogsByTag(bs, tag) ==
  SelectSeq(bs, LAMBDA blog : tag \in Range(blog.tags))

\* getBlogsByAuthor
getBlogsByAuthor(bs, authorId) ==
  SelectSeq(bs, LAMBDA blog : blog.authorId = authorId)

\* The comparator without the sortOrder test: always the descending sign.
compareIgnoresOrder(a, b, by, order) ==
  CASE by = "recent" -> b.createdAt - a.createdAt
    [] by = "oldest" -> a.createdAt - b.createdAt
    [] by = "likes"  -> Len(b.likes) - Len(a.likes)
    [] by = "views"  -> b.views - a.views
    [] OTHER         -> b.createdAt - a.createdAt

\* The comparator getSortedBlogs hands to Array.prototype.sort.
compare(a, b, by, order) ==
  LET comparison == CASE by = "recent" -> b.createdAt - a.createdAt
                      [] by = "oldest" -> a.createdAt - b.createdAt
                      [] by = "likes"  -> Len(b.likes) - Len(a.likes)
                      [] by = "views"  -> b.views - a.views
                      [] OTHER         -> b.createdAt - a.createdAt
  IN IF order = "desc" THEN comparison ELSE 0 - comparison

RECURSIVE InsertSorted(_, _, _, _)

\* One insertion of a sort that is not stable: x goes in front of the
\* elements that compare equal to it.
InsertSortedBeforeEqual(sorted, x, by, order) ==
  LET n == Cardinality({k \in DOMAIN sorted :
                          \A j \in 1 .. k : compare(sorted[j], x, by, order) < 0})
  IN SubSeq(sorted, 1, n) \o <<x>> \o SubSeq(sorted, n + 1, Len(sorted))

\* One insertion of a stable sort: x goes behind every element that does
\* not compare greater than it.
InsertSorted(sorted, x, by, order) ==
  IF sorted = <<>> THEN <<x>>
  ELSE LET last == sorted[Len(sorted)]
       IN IF compare(last, x, by, order) > 0
          THEN Append(InsertSorted(SubSeq(sorted, 1, Len(sorted) - 1), x, by, order), last)
          ELSE Append(sorted, x)

\* Array.prototype.sort with the comparator above (stable, ECMAScript 2019).
RECURSIVE ArraySort(_, _, _)
ArraySort(arr, by, order) ==
  IF arr = <<>> THEN <<>>
  ELSE InsertSorted(ArraySort(SubSeq(arr, 1, Len(arr) - 1), by, order),
                    arr[Len(arr)], by, order)

\* getSortedBlogs that produces the ascending order by reversing the
\* descending one.
getSortedBlogsReversing(blogsToSort, by, order) ==
  [sorted |-> IF order = "asc"
              THEN LET d == ArraySort(blogsToSort, by, "desc")
                   IN [k \in DOMAIN d |-> d[Len(d) + 1 - k]]
              ELSE ArraySort(blogsToSort, by, order),
   arg |-> blogsToSort]

\* getSortedBlogs: `sorted` is the array it returns, `arg` the array it was
\* given as the call leaves it (the sort works on a copy).
getSortedBlogs(blogsToSort, by, order) ==
  [sorted |-> ArraySort(blogsToSort, by, order), arg |-> blogsToSort]

\* The number of posts the home page hands to the spotlight carousel.
SpotlightLimit == 6

\* Array.prototype.slice(0, n)
Slice(arr, n) == SubSeq(arr, 1, IF Len(arr) < n THEN Len(arr) ELSE n)

\* getSpotlightBlogs of the provider: the posts flagged isSpotlight.
getSpotlightBlogs(bs) ==
  SelectSeq(bs, LAMBDA blog : "isSpotlight" \in DOMAIN blog /\ blog.isSpotlight)

\* spotlightBlogs that takes the flagged posts of the sorted collection.
spotlightBlogsByFlag(bs, by, order) ==
  Slice(getSpotlightBlogs(getSortedBlogs(bs, by, order).sorted), SpotlightLimit)

\* spotlightBlogs of the application
spotlightBlogs(bs, by, order) ==
  Slice(getSortedBlogs(bs, by, order).sorted, SpotlightLimit)

\* filteredBlogs of the application: search, category and tag filters when
\* they are set (non-empty), then the sort.
filteredBlogs(bs, searchQuery, selectedCategory, selectedTag, by, order) ==
  LET afterSearch   == IF searchQuery # "" THEN searchBlogs(bs, searchQuery) ELSE bs
      afterCategory == IF selectedCategory # ""
                       THEN SelectSeq(afterSearch, LAMBDA blog : blog.category = selectedCategory)
                       ELSE afterSearch
      afterTag      == IF selectedTag # ""
                       THEN SelectSeq(afterCategory, LAMBDA blog : selectedTag \in Range(blog.tags))
                       ELSE afterCategory
  IN getSortedBlogs(afterTag, by, order).sorted

-----------------------------------------------------------------------------
(* Inputs of the operations                                                *)

\* Post bodies a draft or an update carries: the empty body, 200 words
\* after a leading blank, and a body of more than 1000 characters.
ContentInputs ==
  { <<>>, <<Sp(1), Words(200)>>, <<Tag(1), Words(600), Tag(2)>> }

\* The draft createBlog receives (a Blog without the fields it fills in).
Draft(content) ==
  [title |-> "Draft", content |-> content, excerpt |-> "About the draft",
   category |-> "Technology", tags |-> <<"AI", "Drafts">>]

\* The seed posts the operations are not aimed at.
QuietSeeds == {"2", "3", "4", "5"}

\* Post ids passed to the operations: ids in the collection, ids the
\* full-content cache knows, and an unknown one.
IdInputs ==
  (({b.id : b \in Range(blogs)} \cup DOMAIN fullContentStorage) \ QuietSeeds)
    \cup {"nope"}

\* Partial<Blog> values passed to updateBlog at time t.
UpdateInputs(t) ==
  { [content |-> <<>>],
    [content |-> <<Sp(1), Words(200)>>],
    [id |-> "2"],
    [createdAt |-> t + 1],
    [updatedAt |-> 0, title |-> "Edited"] }

\* Math.random(): the id suffix and the initial view count it yields.
RandomDraws == { [suffix |-> "k3j9x2m1q", views |-> 1],
                 [suffix |-> "z7c0t5w8b", views |-> 100] }

\* n successive readings of the clock starting at t: the clock may tick
\* between two readings.
Reads2(t) == { <<t, b>> : b \in t .. t + 1 }
Reads3(t) == { r \in {t} \X (t .. t + 1) \X (t .. t + 1) : r[2] <= r[3] }

\* Comment ids passed to deleteComment.
CommentIdInputs ==
  UNION {{c.id : c \in Range(b.comments)} : b \in Range(blogs)} \cup {"nope"}

-----------------------------------------------------------------------------
(* The state machine                                                       *)

\* The arguments of a query call (unused ones are "").
Query(op, text, category, tag, authorId) ==
  [op |-> op, text |-> text, category |-> category, tag |-> tag,
   authorId |-> authorId]

\* The storage item when it was never written, when its text is not JSON,
\* and when it is the JSON text of the value v.
NoItem == <<"none">>
Corrupt == <<"corrupt">>
Json(v) == <<"json", v>>

\* No stored item and no effect scheduled.
StoreIdle ==
  /\ storage = NoItem
  /\ effects = <<>>

\* The carousel as it is mounted (useState initial values).
CarouselIdle ==
  /\ currentIndex = 0
  /\ isAutoPlaying = TRUE
  /\ progress = 0

\* The sort settings of a fresh provider, and no query made yet.
QueryIdle ==
  /\ sortBy = "recent"
  /\ sortOrder = "desc"
  /\ query = Query("none", "", "", "", "")
  /\ result = <<>>

Init ==
  /\ blogs = sampleBlogs
  /\ fullContentStorage = <<>>
  /\ user \in UserValues
  /\ now = StartTime
  /\ outcome = Outcome("mount", "", "", "none")
  /\ steps = 0
  /\ QueryIdle
  /\ StoreIdle
  /\ CarouselIdle

Step ==
  /\ steps < MaxOps
  /\ steps' = steps + 1
  /\ UNCHANGED <<sortBy, sortOrder, query, result>>
  /\ UNCHANGED <<storage, effects, currentIndex, isAutoPlaying, progress>>

CreateBlog(content, reads, draw) ==
  /\ Step
  /\ LET r == createBlog(blogs, fullContentStorage, user, Draft(content), reads, draw)
     IN /\ blogs' = r.blogs
        /\ fullContentStorage' = r.cache
        /\ outcome' = r.out
  /\ now' = IF user = <<>> THEN now ELSE reads[3]
  /\ UNCHANGED user

UpdateBlog(id, updates) ==
  /\ Step
  /\ blogs' = updateBlog(blogs, id, updates, now)
  /\ outcome' = Outcome("updateBlog", "", "", "none")
  /\ UNCHANGED <<fullContentStorage, user, now>>

DeleteBlog(id) ==
  /\ Step
  /\ LET r == deleteBlog(blogs, fullContentStorage, id)
     IN /\ blogs' = r.blogs
        /\ fullContentStorage' = r.cache
  /\ outcome' = Outcome("deleteBlog", "", "", "none")
  /\ UNCHANGED <<user, now>>

ToggleLikeBlog(id) ==
  /\ Step
  /\ IF user = <<>>
     THEN /\ outcome' = Outcome("toggleLikeBlog", "", "", "error: Please log in to like posts")
          /\ UNCHANGED blogs
     ELSE /\ blogs' = toggleLikeBlog(blogs, user[1].id, id)
          /\ outcome' = Outcome("toggleLikeBlog", "", "",
                          IF \E b \in Range(blogs) : b.id = id
                          THEN "success: like toggled" ELSE "none")
  /\ UNCHANGED <<fullContentStorage, user, now>>

AddComment(blogId, isAnonymous, reads, draw) ==
  /\ Step
  /\ IF user = <<>> /\ ~isAnonymous
     THEN /\ outcome' = Outcome("addComment", "", "", "error: Please log in to comment")
          /\ UNCHANGED <<blogs, now>>
     ELSE /\ blogs' = addComment(blogs, blogId,
                        newComment(user, "Nice post", isAnonymous, reads, draw.suffix))
          /\ outcome' = Outcome("addComment", "", "", "success: Comment added!")
          /\ now' = reads[2]
  /\ UNCHANGED <<fullContentStorage, user>>

DeleteComment(blogId, commentId) ==
  /\ Step
  /\ IF user = <<>>
     THEN /\ outcome' = Outcome("deleteComment", "", "", "none")
          /\ UNCHANGED blogs
     ELSE /\ blogs' = deleteComment(blogs, user[1].id, blogId, commentId)
          /\ outcome' = Outcome("deleteComment", "", "", "success: Comment deleted")
  /\ UNCHANGED <<fullContentStorage, user, now>>

IncrementViews(id) ==
  /\ Step
  /\ blogs' = incrementViews(blogs, id)
  /\ outcome' = Outcome("incrementViews", "", "", "none")
  /\ UNCHANGED <<fullContentStorage, user, now>>

\* The session context signs a user in or out.
SetUser(u) ==
  /\ Step
  /\ u # user
  /\ user' = u
  /\ outcome' = Outcome("setUser", "", "", "none")
  /\ UNCHANGED <<blogs, fullContentStorage, now>>

\* The wall clock advances between two calls.
Tick ==
  /\ Step
  /\ now' = now + 1
  /\ outcome' = Outcome("tick", "", "", "none")
  /\ UNCHANGED <<blogs, fullContentStorage, user>>

Next ==
  \/ \E c \in ContentInputs, reads \in Reads3(now), draw \in RandomDraws :
       CreateBlog(c, reads, draw)
  \/ \E id \in IdInputs, updates \in UpdateInputs(now) : UpdateBlog(id, updates)
  \/ \E id \in IdInputs : DeleteBlog(id)
  \/ \E id \in IdInputs : ToggleLikeBlog(id)
  \/ \E id \in IdInputs, anon \in BOOLEAN, reads \in Reads2(now), draw \in RandomDraws :
       AddComment(id, anon, reads, draw)
  \/ \E id \in IdInputs, cid \in CommentIdInputs : DeleteComment(id, cid)
  \/ \E id \in IdInputs : IncrementViews(id)
  \/ \E u \in UserValues : SetUser(u)
  \/ Tick

Spec == Init /\ [][Next]_vars

\* The posts that createBlog alone adds to the seed collection.
NextCreate ==
  \/ \E c \in ContentInputs, reads \in Reads3(now), draw \in RandomDraws :
       CreateBlog(c, reads, draw)
  \/ \E u \in UserValues : SetUser(u)
  \/ Tick

SpecCreate == Init /\ [][NextCreate]_vars

\* A collection in which seed post 1 has three comments, added in an earlier
\* part of the session by user1, by an anonymous visitor and by admin1.
CommentedBlogs ==
  LET c1 == newComment(<<User("user1", "Ada")>>, "First", FALSE,
                       <<StartTime - 3, StartTime - 3>>, "a1b2c3d4e")
      c2 == newComment(<<>>, "Second", TRUE,
                       <<StartTime - 2, StartTime - 2>>, "f5g6h7i8j")
      c3 == newComment(<<User("admin1", "Root")>>, "Third", FALSE,
                       <<StartTime - 1, StartTime - 1>>, "k9l0m1n2o")
  IN addComment(addComment(addComment(sampleBlogs, "1", c1), "1", c2), "1", c3)

InitComments ==
  /\ blogs = CommentedBlogs
  /\ fullContentStorage = <<>>
  /\ user \in UserValues
  /\ now = StartTime
  /\ outcome = Outcome("mount", "", "", "none")
  /\ steps = 0
  /\ QueryIdle
  /\ StoreIdle
  /\ CarouselIdle

NextComments ==
  \/ \E id \in IdInputs, anon \in BOOLEAN, reads \in Reads2(now), draw \in RandomDraws :
       AddComment(id, anon, reads, draw)
  \/ \E id \in IdInputs, cid \in CommentIdInputs : DeleteComment(id, cid)
  \/ \E u \in UserValues : SetUser(u)
  \/ Tick

SpecComments == InitComments /\ [][NextComments]_vars

\* Array.prototype.sort with (a, b) => b.createdAt - a.createdAt: newest
\* first, comments of the same instant in the order they had.
RECURSIVE sortNewestFirst(_)
sortNewestFirst(comments) ==
  IF comments = <<>> THEN <<>>
  ELSE LET sorted  == sortNewestFirst(SubSeq(comments, 1, Len(comments) - 1))
           comment == comments[Len(comments)]
           k == Cardinality({i \in DOMAIN sorted :
                               sorted[i].createdAt >= comment.createdAt})
       IN SubSeq(sorted, 1, k) \o <<comment>> \o SubSeq(sorted, k + 1, Len(sorted))

\* A visitor opens a post of the list and its comments section is drawn:
\* the section is handed the post object of the collection and sorts its
\* comments array where it is.
RenderComments(blogId) ==
  /\ Step
  /\ \E i \in DOMAIN blogs : blogs[i].id = blogId /\ Len(blogs[i].comments) > 0
  /\ blogs' = [i \in DOMAIN blogs |->
                 IF blogs[i].id = blogId
                 THEN [blogs[i] EXCEPT !.comments = sortNewestFirst(@)]
                 ELSE blogs[i]]
  /\ outcome' = Outcome("renderComments", "", "", "none")
  /\ UNCHANGED <<fullContentStorage, user, now>>

NextCommentsView ==
  \/ NextComments
  \/ \E id \in IdInputs : RenderComments(id)

SpecCommentsView == InitComments /\ [][NextCommentsView]_vars

\* A collection to which user1 has added a post whose body is longer than
\* 1000 characters, so that the full-content cache has an entry.
CachedCreate ==
  createBlog(sampleBlogs, <<>>, <<User("user1", "Ada")>>,
             Draft(<<Tag(1), Words(600), Tag(2)>>),
             <<StartTime - 1, StartTime - 1, StartTime - 1>>,
             [suffix |-> "p3q4r5s6t", views |-> 42])

InitCache ==
  /\ blogs = CachedCreate.blogs
  /\ fullContentStorage = CachedCreate.cache
  /\ user \in UserValues
  /\ now = StartTime
  /\ outcome = Outcome("mount", "", "", "none")
  /\ steps = 0
  /\ QueryIdle
  /\ StoreIdle
  /\ CarouselIdle

NextCache ==
  \/ \E c \in ContentInputs, reads \in Reads3(now), draw \in RandomDraws :
       CreateBlog(c, reads, draw)
  \/ \E id \in IdInputs, updates \in UpdateInputs(now) : UpdateBlog(id, updates)
  \/ \E id \in IdInputs : DeleteBlog(id)

SpecCache == InitCache /\ [][NextCache]_vars

-----------------------------------------------------------------------------
(* Persistence: the mount effect, the save effect and a restart            *)

\* JSON values: null, an array of items, and an object that is no array.
JsonNull == <<"null">>
JsonArray(items) == <<"array", items>>
JsonObject == <<"object">>

\* Date.prototype.toJSON: the ISO string of a date (here the decimal digits
\* of its tick followed by "Z").
IsoString(t) == ToString(t) \o "Z"

Digits == <<"0", "1", "2", "3", "4", "5", "6", "7", "8", "9">>
DigitValue(ch) == (CHOOSE k \in DOMAIN Digits : Digits[k] = ch) - 1

RECURSIVE ParseDigits(_)
ParseDigits(str) ==
  IF Len(str) = 0 THEN 0
  ELSE ParseDigits(SubSeq(str, 1, Len(str) - 1)) * 10
         + DigitValue(SubSeq(str, Len(str), Len(str)))

\* new Date(isoString)
NewDate(str) == ParseDigits(SubSeq(str, 1, Len(str) - 1))

\* JSON.stringify of a comment and of a post followed by JSON.parse: the
\* dates become ISO strings and a property whose value is undefined is
\* left out.
stringifyComment(c) ==
  LET kept == IF c.authorAvatar = "undefined"
              THEN DOMAIN c \ {"authorAvatar"} ELSE DOMAIN c
  IN [f \in kept |-> IF f = "createdAt" THEN IsoString(c.createdAt) ELSE c[f]]

stringifyBlog(b) ==
  [f \in DOMAIN b |->
     CASE f = "createdAt" -> IsoString(b.createdAt)
       [] f = "updatedAt" -> IsoString(b.updatedAt)
       [] f = "comments"  -> [k \in DOMAIN b.comments |-> stringifyComment(b.comments[k])]
       [] OTHER           -> b[f]]

\* saveToStorage('blogverse_blogs', value): the item it writes
saveToStorage(value) ==
  Json(JsonArray([i \in DOMAIN value |-> stringifyBlog(value[i])]))

\* loadFromStorage('blogverse_blogs', null): the parsed value, or the
\* default when the item is missing or is not JSON
loadFromStorage(item) ==
  IF item = NoItem \/ item = Corrupt THEN JsonNull ELSE item[2]

\* A comment of a saved post with its date reconstructed; a comment read
\* back without avatar has the avatar undefined.
commentWithDate(c) ==
  [f \in DOMAIN c \cup {"authorAvatar"} |->
     IF f = "createdAt" THEN NewDate(c.createdAt)
     ELSE IF f \in DOMAIN c THEN c[f] ELSE "undefined"]

\* The mapping with the date of every comment reconstructed from the
\* createdAt of the post instead of its own.
blogWithPostDates(blog) ==
  [f \in DOMAIN blog |->
     CASE f = "createdAt" -> NewDate(blog.createdAt)
       [] f = "updatedAt" -> NewDate(blog.updatedAt)
       [] f = "comments"  -> [k \in DOMAIN blog.comments |->
                                commentWithDate([blog.comments[k] EXCEPT
                                                   !.createdAt = blog.createdAt])]
       [] OTHER           -> blog[f]]

\* One saved post with its dates and the dates of its comments
\* reconstructed (the function mapped over savedBlogs).
blogWithDates(blog) ==
  [f \in DOMAIN blog |->
     CASE f = "createdAt" -> NewDate(blog.createdAt)
       [] f = "updatedAt" -> NewDate(blog.updatedAt)
       [] f = "comments"  -> [k \in DOMAIN blog.comments |->
                                commentWithDate(blog.comments[k])]
       [] OTHER           -> blog[f]]

\* The mount effect that replaces the collection only when the snapshot has
\* more posts than the seed set.
mountEffectOnlyIfMore(prev, item) ==
  LET savedBlogs == loadFromStorage(item)
      isArray    == savedBlogs[1] = "array"
      usable     == isArray /\ Len(savedBlogs[2]) > 0
      throws     == usable /\ \E i \in DOMAIN savedBlogs[2] : savedBlogs[2][i] = [null |-> TRUE]
      mapped     == IF usable /\ ~throws
                    THEN [i \in DOMAIN savedBlogs[2] |-> blogWithDates(savedBlogs[2][i])]
                    ELSE <<>>
      replaces   == usable /\ ~throws /\ Len(mapped) > Len(sampleBlogs)
  IN [blogs    |-> IF replaces THEN mapped ELSE prev,
      replaced |-> replaces,
      blogsWithDates |-> mapped,
      storage  |-> IF savedBlogs = JsonNull THEN saveToStorage(sampleBlogs) ELSE item]

\* The mount effect: `blogs` is the collection after it (prev when it does
\* not call setBlogs), `replaced` tells whether it called setBlogs,
\* `blogsWithDates` is the list it reconstructs from the saved posts (empty
\* when there is none or the mapping throws), and `storage` is the item
\* after it.
mountEffect(prev, item) ==
  LET savedBlogs == loadFromStorage(item)
      isArray    == savedBlogs[1] = "array"
      usable     == isArray /\ Len(savedBlogs[2]) > 0
      throws     == usable /\ \E i \in DOMAIN savedBlogs[2] : savedBlogs[2][i] = [null |-> TRUE]
      mapped     == IF usable /\ ~throws
                    THEN [i \in DOMAIN savedBlogs[2] |-> blogWithDates(savedBlogs[2][i])]
                    ELSE <<>>
      replaces   == usable /\ ~throws /\ Len(mapped) >= Len(sampleBlogs)
  IN [blogs    |-> IF replaces THEN mapped ELSE prev,
      replaced |-> replaces,
      blogsWithDates |-> mapped,
      storage  |-> IF savedBlogs = JsonNull THEN saveToStorage(sampleBlogs) ELSE item]

\* The save effect of a render whose collection is rendered: the item
\* after it.
saveEffect(rendered, item) ==
  IF Len(rendered) > 0 THEN saveToStorage(rendered) ELSE item

\* The effects of the first render: the mount effect and the save effect,
\* both closed over the collection of that render.
Effect(name, rendered) == [effect |-> name, blogs |-> rendered]
FirstRenderEffects == <<Effect("mount", sampleBlogs), Effect("save", sampleBlogs)>>

\* A start of the application run to its end: the effects of the first
\* render and, when the mount effect replaced the collection, the save
\* effect of the second render.
startup(item) ==
  LET m      == mountEffect(sampleBlogs, item)
      first  == saveEffect(sampleBlogs, m.storage)
      second == IF m.replaced THEN saveEffect(m.blogs, first) ELSE first
  IN [blogs |-> m.blogs, storage |-> second]

\* Bound of the sessions with persistence: creations, deletions and
\* restarts from the first start.
MaxSessionOps == 5

\* The items the first start may find: none, a text that is not JSON, a
\* JSON object, an empty array, four posts, five posts with comments, five
\* entries of which one is null, and six posts.
StoredInputs ==
  { NoItem, Corrupt, Json(JsonObject), Json(JsonArray(<<>>)),
    saveToStorage(Tail(sampleBlogs)),
    saveToStorage(CommentedBlogs),
    Json(JsonArray([i \in 1 .. 5 |-> IF i = 3 THEN [null |-> TRUE]
                                     ELSE stringifyBlog(sampleBlogs[i])])),
    saveToStorage(CachedCreate.blogs) }

\* The first render of the provider: the seed collection, with the mount
\* effect and the save effect scheduled.
InitPersist ==
  /\ blogs = sampleBlogs
  /\ fullContentStorage = <<>>
  /\ user = <<User("user1", "Ada")>>
  /\ now = StartTime
  /\ outcome = Outcome("mount", "", "", "none")
  /\ steps = 0
  /\ QueryIdle
  /\ CarouselIdle
  /\ storage \in StoredInputs
  /\ effects = FirstRenderEffects

PersistFrame ==
  UNCHANGED <<user, now, sortBy, sortOrder, query, result,
              currentIndex, isAutoPlaying, progress>>

\* React runs the oldest scheduled effect. A setBlogs of the mount effect
\* causes a render whose save effect is scheduled behind the others.
RunEffect ==
  /\ effects # <<>>
  /\ LET e == Head(effects)
         m == mountEffect(blogs, storage)
     IN IF e.effect = "mount"
        THEN /\ blogs' = m.blogs
             /\ storage' = m.storage
             /\ effects' = IF m.replaced
                            THEN Append(Tail(effects), Effect("save", m.blogs))
                            ELSE Tail(effects)
        ELSE /\ storage' = saveEffect(e.blogs, storage)
             /\ effects' = Tail(effects)
             /\ UNCHANGED blogs
  /\ outcome' = Outcome(Head(effects).effect, "", "", "none")
  /\ UNCHANGED <<fullContentStorage, steps>>
  /\ PersistFrame

\* An event handler runs once the effects of the last render have run; its
\* setBlogs causes a render, which schedules the save effect.
SessionStep ==
  /\ effects = <<>>
  /\ steps < MaxSessionOps
  /\ steps' = steps + 1

SessionCreateBlog(content, reads, draw) ==
  /\ SessionStep
  /\ LET r == createBlog(blogs, fullContentStorage, user, Draft(content), reads, draw)
     IN /\ blogs' = r.blogs
        /\ fullContentStorage' = r.cache
        /\ outcome' = r.out
        /\ effects' = <<Effect("save", r.blogs)>>
  /\ UNCHANGED storage
  /\ PersistFrame

SessionDeleteBlog(id) ==
  /\ SessionStep
  /\ LET r == deleteBlog(blogs, fullContentStorage, id)
     IN /\ blogs' = r.blogs
        /\ fullContentStorage' = r.cache
        /\ effects' = <<Effect("save", r.blogs)>>
  /\ outcome' = Outcome("deleteBlog", "", "", "none")
  /\ UNCHANGED storage
  /\ PersistFrame

SessionAddComment(blogId, isAnonymous, reads, draw) ==
  /\ SessionStep
  /\ user # <<>> \/ isAnonymous
  /\ LET r == addComment(blogs, blogId,
                         newComment(user, "Nice post", isAnonymous, reads, draw.suffix))
     IN /\ blogs' = r
        /\ effects' = <<Effect("save", r)>>
  /\ outcome' = Outcome("addComment", "", "", "success: Comment added!")
  /\ UNCHANGED <<fullContentStorage, storage>>
  /\ PersistFrame

\* The page is loaded again: the module-level cache is new, the provider
\* renders the seed collection and schedules its effects; the storage item
\* is what the last session left.
Restart ==
  /\ SessionStep
  /\ blogs' = sampleBlogs
  /\ fullContentStorage' = <<>>
  /\ effects' = FirstRenderEffects
  /\ outcome' = Outcome("restart", "", "", "none")
  /\ UNCHANGED storage
  /\ PersistFrame

NextPersist ==
  \/ RunEffect
  \/ \E draw \in RandomDraws : SessionCreateBlog(<<Sp(1), Words(200)>>, <<now, now, now>>, draw)
  \/ \E id \in {b.id : b \in Range(blogs)} : SessionDeleteBlog(id)
  \/ \E draw \in RandomDraws : SessionAddComment("1", TRUE, <<now, now>>, draw)
  \/ Restart

SpecPersist == InitPersist /\ [][NextPersist]_vars

-----------------------------------------------------------------------------
(* The query functions applied to collections of posts                     *)

\* Bound: the longest collection of query posts.
MaxList == 3

\* Four short posts: a and b have the same createdAt and views, b and c the
\* same number of likes; the categories and tags differ in case.
QueryPosts ==
  { SampleBlog("a", "Rust Tips", 3, "Small steps in rust", "author1", "Sarah Chen",
               "Programming", <<"AI", "Rust">>, <<"user1", "user2">>, 10, 50, 1),
    SampleBlog("b", "AIR travel", 2, "Packing light", "author2", "Marcus Johnson",
               "Travel", <<"Trips">>, <<"user3">>, 10, 50, 1),
    SampleBlog("c", "Design notes", 4, "Grids and type", "author1", "Sarah Chen",
               "Design", <<"ai", "Figma">>, <<"user1">>, 30, 70, 1),
    SampleBlog("d", "Compilers", 1, "Parsing by hand", "author3", "Emma Thompson",
               "programming", <<"AI">>, <<>>, 5, 60, 1) }

\* The collections the queries run on: the seed collection and every list of
\* up to MaxList different query posts (the elements of an array of posts
\* are different objects).
QueryCollections ==
  {sampleBlogs} \cup
  UNION { { l \in [1 .. n -> QueryPosts] : \A i, j \in 1 .. n : i # j => l[i] # l[j] }
          : n \in 0 .. MaxList }

SearchInputs   == {"", "ai", "RUST", "sarah"}
CategoryInputs == {"Programming", "programming", "Cooking"}
TagInputs      == {"AI", "ai", "Cooking"}
AuthorInputs   == {"author1", "nobody"}
\* searchQuery, selectedCategory and selectedTag of the home page ("" when
\* the visitor has not set the filter)
FilterInputs   == { <<"", "", "">>, <<"", "Programming", "AI">>,
                    <<"", "", "ai">>, <<"ai", "Programming", "">> }
SortByInputs   == {"recent", "oldest", "likes", "views"}
SortOrderInputs == {"asc", "desc"}

InitQuery ==
  /\ blogs \in QueryCollections
  /\ fullContentStorage = <<>>
  /\ user = <<>>
  /\ now = StartTime
  /\ outcome = Outcome("mount", "", "", "none")
  /\ steps = 0
  /\ QueryIdle
  /\ StoreIdle
  /\ CarouselIdle

Quiet ==
  UNCHANGED <<fullContentStorage, user, now, outcome, steps,
              storage, effects, currentIndex, isAutoPlaying, progress>>

SearchBlogs(text) ==
  /\ result' = searchBlogs(blogs, text)
  /\ query' = Query("searchBlogs", text, "", "", "")
  /\ UNCHANGED <<blogs, sortBy, sortOrder>>
  /\ Quiet

GetBlogsByCategory(category) ==
  /\ result' = getBlogsByCategory(blogs, category)
  /\ query' = Query("getBlogsByCategory", "", category, "", "")
  /\ UNCHANGED <<blogs, sortBy, sortOrder>>
  /\ Quiet

GetBlogsByTag(tag) ==
  /\ result' = getBlogsByTag(blogs, tag)
  /\ query' = Query("getBlogsByTag", "", "", tag, "")
  /\ UNCHANGED <<blogs, sortBy, sortOrder>>
  /\ Quiet

GetBlogsByAuthor(authorId) ==
  /\ result' = getBlogsByAuthor(blogs, authorId)
  /\ query' = Query("getBlogsByAuthor", "", "", "", authorId)
  /\ UNCHANGED <<blogs, sortBy, sortOrder>>
  /\ Quiet

\* getSortedBlogs() on the collection itself (the default argument).
GetSortedBlogs ==
  /\ LET r == getSortedBlogs(blogs, sortBy, sortOrder)
     IN /\ result' = r.sorted
        /\ blogs' = r.arg
  /\ query' = Query("getSortedBlogs", "", "", "", "")
  /\ UNCHANGED <<sortBy, sortOrder>>
  /\ Quiet

\* The home page recomputes filteredBlogs for the filters the visitor set.
FilteredBlogs(searchQuery, selectedCategory, selectedTag) ==
  /\ result' = filteredBlogs(blogs, searchQuery, selectedCategory, selectedTag,
                             sortBy, sortOrder)
  /\ query' = Query("filteredBlogs", searchQuery, selectedCategory, selectedTag, "")
  /\ UNCHANGED <<blogs, sortBy, sortOrder>>
  /\ Quiet

SetSortBy(by) ==
  /\ by # sortBy
  /\ sortBy' = by
  /\ UNCHANGED <<blogs, sortOrder, query, result>>
  /\ Quiet

SetSortOrder(order) ==
  /\ order # sortOrder
  /\ sortOrder' = order
  /\ UNCHANGED <<blogs, sortBy, query, result>>
  /\ Quiet

NextQuery ==
  \/ \E text \in SearchInputs : SearchBlogs(text)
  \/ \E category \in CategoryInputs : GetBlogsByCategory(category)
  \/ \E tag \in TagInputs : GetBlogsByTag(tag)
  \/ \E authorId \in AuthorInputs : GetBlogsByAuthor(authorId)
  \/ GetSortedBlogs
  \/ \E f \in FilterInputs : FilteredBlogs(f[1], f[2], f[3])
  \/ \E by \in SortByInputs : SetSortBy(by)
  \/ \E order \in SortOrderInputs : SetSortOrder(order)

SpecQuery == InitQuery /\ [][NextQuery]_vars

-----------------------------------------------------------------------------
(* The spotlight list of the home page                                     *)

\* The seed collection followed by two posts of other authors.
LongCollection ==
  sampleBlogs \o
  << SampleBlog("6", "Rust Tips", 3, "Small steps in rust", "author6", "Nora Diaz",
                "Programming", <<"AI", "Rust">>, <<"user1", "user2", "user3", "user4">>,
                900, SeedTime(16, 8, 0), 1),
     SampleBlog("7", "Compilers", 1, "Parsing by hand", "author7", "Omar Haddad",
                "Programming", <<"Parsing">>, <<>>, 3000, SeedTime(3, 8, 0), 1) >>

SpotlightCollections == { SubSeq(sampleBlogs, 1, 2), sampleBlogs, LongCollection }

InitSpotlight ==
  /\ blogs \in SpotlightCollections
  /\ fullContentStorage = <<>>
  /\ user = <<>>
  /\ now = StartTime
  /\ outcome = Outcome("mount", "", "", "none")
  /\ steps = 0
  /\ QueryIdle
  /\ StoreIdle
  /\ CarouselIdle

\* The home page recomputes spotlightBlogs; the search, category and tag
\* filters the visitor has set stay as they are.
SpotlightBlogs ==
  /\ result' = spotlightBlogs(blogs, sortBy, sortOrder)
  /\ query' = [query EXCEPT !.op = "spotlightBlogs"]
  /\ UNCHANGED <<blogs, sortBy, sortOrder>>
  /\ Quiet

NextSpotlight ==
  \/ SpotlightBlogs
  \/ \E f \in FilterInputs : FilteredBlogs(f[1], f[2], f[3])
  \/ \E by \in SortByInputs : SetSortBy(by)
  \/ \E order \in SortOrderInputs : SetSortOrder(order)

SpecSpotlight == InitSpotlight /\ [][NextSpotlight]_vars

-----------------------------------------------------------------------------
(* The spotlight carousel of the home page                                 *)

\* The value at which the progress bar starts over.
ProgressFull == 100

\* The posts the home page hands to the carousel.
displayed == spotlightBlogs(blogs, sortBy, sortOrder)

\* The carousel has been drawn: it has posts and blogs[currentIndex] is one
\* of them (with no post the home page does not mount it; with an index
\* outside the list currentBlog.content throws while drawing).
Drawn == Len(displayed) > 0 /\ currentIndex < Len(displayed)

\* The page is up: the carousel is drawn or not mounted.
PageUp == Len(displayed) = 0 \/ Drawn

\* The two intervals run while auto-play is on and there are two posts or more.
TimersRun == Drawn /\ isAutoPlaying /\ Len(displayed) > 1

CarouselFrame ==
  UNCHANGED <<blogs, fullContentStorage, user, now, outcome, steps,
              sortBy, sortOrder, query, result, storage, effects>>

InitCarousel ==
  /\ blogs \in { sampleBlogs, SubSeq(sampleBlogs, 1, 2) }
  /\ fullContentStorage = <<>>
  /\ user = <<User("user1", "Ada")>>
  /\ now = StartTime
  /\ outcome = Outcome("mount", "", "", "none")
  /\ steps = 0
  /\ QueryIdle
  /\ StoreIdle
  /\ CarouselIdle

\* handleSlideChange
handleSlideChange(newIndex) ==
  /\ currentIndex' = newIndex
  /\ progress' = 0
  /\ UNCHANGED isAutoPlaying
  /\ CarouselFrame

\* The 10 second interval fires.
AutoAdvance ==
  /\ TimersRun
  /\ currentIndex' = (currentIndex + 1) % Len(displayed)
  /\ progress' = 0
  /\ UNCHANGED isAutoPlaying
  /\ CarouselFrame

\* The 100 millisecond interval fires.
ProgressTick ==
  /\ TimersRun
  /\ progress' = IF progress >= ProgressFull THEN 0 ELSE progress + 1
  /\ UNCHANGED <<currentIndex, isAutoPlaying>>
  /\ CarouselFrame

GoToPrevious ==
  /\ Drawn
  /\ handleSlideChange(IF currentIndex = 0 THEN Len(displayed) - 1 ELSE currentIndex - 1)

GoToNext ==
  /\ Drawn
  /\ handleSlideChange((currentIndex + 1) % Len(displayed))

\* A click on the dot of the post at position index.
DotClick(index) ==
  /\ Drawn
  /\ index \in 0 .. Len(displayed) - 1
  /\ handleSlideChange(index)

ToggleAutoPlay ==
  /\ Drawn
  /\ isAutoPlaying' = ~isAutoPlaying
  /\ UNCHANGED <<currentIndex, progress>>
  /\ CarouselFrame

\* The collection changes while the home page is up. The carousel keeps its
\* state while it has posts to show; when it has none it is unmounted and
\* starts from its initial state when mounted again.
ListChange(r, out) ==
  /\ PageUp
  /\ steps < MaxOps
  /\ steps' = steps + 1
  /\ blogs' = r.blogs
  /\ fullContentStorage' = r.cache
  /\ outcome' = out
  /\ IF Len(spotlightBlogs(r.blogs, sortBy, sortOrder)) = 0
     THEN currentIndex' = 0 /\ isAutoPlaying' = TRUE /\ progress' = 0
     ELSE UNCHANGED <<currentIndex, isAutoPlaying, progress>>
  /\ UNCHANGED <<user, now, sortBy, sortOrder, query, result, storage, effects>>

PostRemoved(id) ==
  ListChange(deleteBlog(blogs, fullContentStorage, id),
             Outcome("deleteBlog", "", "", "none"))

PostAdded(draw) ==
  LET r == createBlog(blogs, fullContentStorage, user, Draft(<<Sp(1), Words(200)>>),
                      <<now, now, now>>, draw)
  IN ListChange(r, r.out)

NextCarousel ==
  \/ AutoAdvance
  \/ ProgressTick
  \/ GoToPrevious
  \/ GoToNext
  \/ \E index \in 0 .. SpotlightLimit - 1 : DotClick(index)
  \/ ToggleAutoPlay
  \/ \E id \in {b.id : b \in Range(blogs)} : PostRemoved(id)
  \/ \E draw \in RandomDraws : PostAdded(draw)

SpecCarousel == InitCarousel /\ [][NextCarousel]_vars

-----------------------------------------------------------------------------
(* Properties                                                              *)

IdsOf(bs) == [i \in DOMAIN bs |-> bs[i].id]
LikesOf(bs) == [i \in DOMAIN bs |-> bs[i].likes]
NoDuplicates(s) == \A i, j \in DOMAIN s : i # j => s[i] # s[j]

\* C1: in every reachable state no two posts of the collection have the
\* same id.
C1_UniqueIds == NoDuplicates(IdsOf(blogs))

\* C2: an updateBlog call leaves the id of every post as it was, whatever
\* fields the partial update carries.
C2_IdImmutable ==
  [][outcome'.op = "updateBlog" => IdsOf(blogs') = IdsOf(blogs)]_vars

LikesAfterSecondToggle(id) == LikesOf(toggleLikeBlog(blogs', user[1].id, id))

\* C4 (as stated): after toggleLike(id, user) is called twice in a row the
\* likes of the post are exactly the list they were before the first call.
C4_ToggleTwiceExact ==
  [][\A id \in IdInputs :
       (ToggleLikeBlog(id) /\ user # <<>>)
         => LikesAfterSecondToggle(id) = LikesOf(blogs)]_vars

\* C4 (amended): after two toggles in a row the likes of every post hold the
\* same user ids as before the first, each once; the list is the same list
\* when the user had not liked the post or was its last entry, and otherwise
\* the user's id has moved to the end.
C4_ToggleTwiceSameSet ==
  [][\A id \in IdInputs :
       (ToggleLikeBlog(id) /\ user # <<>>)
         => \A i \in DOMAIN blogs :
              LET before == blogs[i].likes
                  after  == LikesAfterSecondToggle(id)[i]
                  uid    == user[1].id
              IN /\ Range(after) = Range(before)
                 /\ Len(after) = Len(before)
                 /\ after = IF blogs[i].id = id /\ uid \in Range(before)
                            THEN Append(SelectSeq(before, LAMBDA x : x # uid), uid)
                            ELSE before]_vars

\* C4 witness: user1, the first entry of the likes of seed post 1, has
\* toggled that post twice.
C4_Witness ==
  /\ outcome.op = "toggleLikeBlog"
  /\ \E b \in Range(blogs) :
       b.id = "1" /\ b.likes = <<"user2", "user3", "user1">>

\* The number of whitespace-delimited tokens of a tag-free text.
RECURSIVE TokenCount(_, _)
TokenCount(c, inWord) ==
  IF c = <<>> THEN 0
  ELSE IF Head(c)[1] = "sp"
       THEN TokenCount(Tail(c), FALSE)
       ELSE (IF inWord THEN Head(c)[2] - 1 ELSE Head(c)[2])
            + TokenCount(Tail(c), TRUE)

\* C5: every post's readTime is ceil(wordCount(stripTags(content)) / 200),
\* wordCount counting the whitespace-delimited tokens.
C5_ReadTime ==
  \A b \in Range(blogs) :
    b.readTime = Ceil(TokenCount(StripTags(b.content), FALSE), 200)

\* C6: every post has updatedAt >= createdAt, and an updateBlog call never
\* moves the updatedAt of a post backwards.
C6_UpdatedAt ==
  /\ [](\A b \in Range(blogs) : b.updatedAt >= b.createdAt)
  /\ [][outcome'.op = "updateBlog"
          => \A i \in DOMAIN blogs : blogs'[i].updatedAt >= blogs[i].updatedAt]_vars

\* C7: createBlog without an acting user throws to its caller and leaves
\* the collection and the full-content cache as they were.
C7_CreateUnauthorized ==
  [][(outcome'.op = "createBlog" /\ user = <<>>)
       => /\ outcome'.thrown = "User must be logged in to create blog"
          /\ outcome'.ret = ""
          /\ blogs' = blogs
          /\ fullContentStorage' = fullContentStorage]_vars

\* C7 witness: a createBlog call without an acting user has thrown.
C7_Witness ==
  /\ outcome.op = "createBlog"
  /\ outcome.thrown # ""
  /\ user = <<>>

\* C8: a successful createBlog puts the new post at the head, attributed to
\* the acting user, with no likes and no comments, createdAt = updatedAt,
\* readTime computed from the draft content; it returns the id of the head
\* post and keeps the previous posts, in order, behind it.
C8_CreateBlogEffect ==
  [][\A c \in ContentInputs, reads \in Reads3(now), draw \in RandomDraws :
       (CreateBlog(c, reads, draw) /\ user # <<>>)
         => /\ blogs' # <<>>
            /\ blogs'[1].authorId = user[1].id
            /\ blogs'[1].authorName = user[1].username
            /\ blogs'[1].authorAvatar = user[1].avatar
            /\ blogs'[1].likes = <<>>
            /\ blogs'[1].comments = <<>>
            /\ blogs'[1].content = c
            /\ blogs'[1].readTime = calculateReadTime(c)
            /\ blogs'[1].createdAt = blogs'[1].updatedAt
            /\ outcome'.ret = blogs'[1].id
            /\ Tail(blogs') = blogs]_vars

\* C9: toggleLikeBlog without an acting user reports the failure to its
\* caller and leaves the likes of every post as they were.
C9_ToggleUnauthorized ==
  [][(outcome'.op = "toggleLikeBlog" /\ user = <<>>)
       => /\ outcome'.thrown # ""
          /\ LikesOf(blogs') = LikesOf(blogs)]_vars

\* C10: addComment with isAnonymous false and no acting user reports the
\* failure to its caller and adds no comment; with isAnonymous true it
\* succeeds with or without an acting user and the comment it appends has
\* the author id "anonymous".
C10_AddCommentAuthorization ==
  [][\A id \in IdInputs, anon \in BOOLEAN, reads \in Reads2(now), draw \in RandomDraws :
       AddComment(id, anon, reads, draw)
         => /\ (user = <<>> /\ ~anon) => (outcome'.thrown # "" /\ blogs' = blogs)
            /\ anon => /\ outcome'.thrown = ""
                       /\ \A i \in DOMAIN blogs :
                            blogs[i].id = id
                              => /\ Len(blogs'[i].comments) = Len(blogs[i].comments) + 1
                                 /\ blogs'[i].comments[Len(blogs'[i].comments)].authorId
                                      = "anonymous"]_vars

CommentIdsOf(b) == [k \in DOMAIN b.comments |-> b.comments[k].id]

\* C11: in every reachable state no two comments of a post have the same
\* comment id, and a successful addComment appends exactly one comment at the
\* end of the comments of the posts with the given id, leaving their other
\* comments and fields and every other post as they were (so an unknown post
\* id changes no post).
C11_AddCommentAppends ==
  /\ [](\A b \in Range(blogs) : NoDuplicates(CommentIdsOf(b)))
  /\ [][\A id \in IdInputs, anon \in BOOLEAN, reads \in Reads2(now), draw \in RandomDraws :
          (AddComment(id, anon, reads, draw) /\ (user # <<>> \/ anon))
            => /\ Len(blogs') = Len(blogs)
               /\ \A i \in DOMAIN blogs :
                    IF blogs[i].id = id
                    THEN /\ Len(blogs'[i].comments) = Len(blogs[i].comments) + 1
                         /\ SubSeq(blogs'[i].comments, 1, Len(blogs[i].comments))
                              = blogs[i].comments
                         /\ [blogs'[i] EXCEPT !.comments = blogs[i].comments] = blogs[i]
                    ELSE blogs'[i] = blogs[i]]_vars

\* C12: deleteComment removes from the posts with the given id exactly the
\* comments that have the given comment id and that the acting user wrote or
\* an administrator asks to remove; without an acting user, for a user who
\* is neither, for an unknown post id and for an unknown comment id nothing
\* is removed; the remaining comments keep their order and no other field of
\* any post changes.
C12_DeleteCommentAuthorized ==
  [][\A id \in IdInputs, cid \in CommentIdInputs :
       DeleteComment(id, cid)
         => /\ Len(blogs') = Len(blogs)
            /\ (user = <<>> => blogs' = blogs)
            /\ \A i \in DOMAIN blogs :
                 /\ blogs'[i].comments =
                      SelectSeq(blogs[i].comments, LAMBDA c :
                        ~ /\ user # <<>>
                          /\ blogs[i].id = id
                          /\ c.id = cid
                          /\ (c.authorId = user[1].id \/ user[1].id \in {"admin1"}))
                 /\ [blogs'[i] EXCEPT !.comments = blogs[i].comments] = blogs[i]]_vars

\* C12 witness: the administrator has removed the anonymous comment, the
\* second of the three comments of seed post 1; the other two remain in
\* their order.
C12_Witness ==
  /\ outcome.op = "deleteComment"
  /\ user # <<>> /\ user[1].id = "admin1"
  /\ \E b \in Range(blogs) :
       /\ b.id = "1"
       /\ [k \in DOMAIN b.comments |-> b.comments[k].content] = <<"First", "Third">>

\* The ids of the posts that the queries return on a collection.
QueriedIds(bs) ==
  UNION { Range(IdsOf(searchBlogs(bs, text))) : text \in {"", "draft"} }
  \cup UNION { Range(IdsOf(getBlogsByAuthor(bs, b.authorId))) : b \in Range(bs) }
  \cup UNION { Range(IdsOf(getBlogsByCategory(bs, b.category))) : b \in Range(bs) }
  \cup UNION { Range(IdsOf(getBlogsByTag(bs, tag))) :
                 tag \in UNION { Range(b.tags) : b \in Range(bs) } }
  \cup UNION { Range(IdsOf(getSortedBlogs(bs, by, order).sorted)) :
                 by \in {"recent", "oldest", "likes", "views"}, order \in {"asc", "desc"} }

\* C13: deleteBlog raises no error; on an id that no post of the collection
\* has it leaves the collection and the full-content cache as they were;
\* deleting the same id once more changes nothing; and after it no query
\* returns a post with that id.
C13_DeleteBlogIdempotent ==
  [][\A id \in IdInputs :
       DeleteBlog(id)
         => /\ outcome'.thrown = ""
            /\ (id \notin Range(IdsOf(blogs))
                  => blogs' = blogs /\ fullContentStorage' = fullContentStorage)
            /\ deleteBlog(blogs', fullContentStorage', id)
                 = [blogs |-> blogs', cache |-> fullContentStorage']
            /\ id \notin QueriedIds(blogs')]_vars

\* C14: in every reachable state every id that has an entry in the
\* full-content cache is the id of a post of the collection.
C14_CacheConsistent == DOMAIN fullContentStorage \subseteq Range(IdsOf(blogs))

SameLetter(x, y) ==
  x = y \/ \E n \in DOMAIN UpperCase : {x, y} = {UpperCase[n], LowerCase[n]}

\* q occurs in str at some position, letters compared without regard to case.
ContainsIgnoringCase(str, q) ==
  \E k \in 0 .. (Len(str) - Len(q)) :
    \A j \in 1 .. Len(q) : SameLetter(SubSeq(str, k + j, k + j), SubSeq(q, j, j))

Matches(b, q) ==
  \/ ContainsIgnoringCase(b.title, q)
  \/ ContainsIgnoringCase(b.excerpt, q)
  \/ ContainsIgnoringCase(ContentText(b.content), q)
  \/ ContainsIgnoringCase(b.category, q)
  \/ ContainsIgnoringCase(b.authorName, q)
  \/ \E t \in Range(b.tags) : ContainsIgnoringCase(t, q)

\* The posts of bs that are in the set S, in the order of bs.
Kept(bs, S) == SelectSeq(bs, LAMBDA b : b \in S)

\* C16: the result of searchBlogs(q) is the posts of the collection in which
\* q occurs, letters compared without regard to case, in the title, the
\* excerpt, the content, the category, the author name or a tag, in the
\* order of the collection; searchBlogs("") is the whole collection.
C16_SearchExact ==
  query.op = "searchBlogs"
    => /\ result = Kept(blogs, {b \in Range(blogs) : Matches(b, query.text)})
       /\ query.text = "" => result = blogs

\* C16 witness: the search for "RUST" in a collection of three posts has
\* returned the one post whose title is "Rust Tips".
C16_Witness ==
  /\ query.op = "searchBlogs"
  /\ query.text = "RUST"
  /\ Len(blogs) = 3
  /\ Len(result) = 1
  /\ result[1].title = "Rust Tips"

\* C17: getBlogsByCategory, getBlogsByTag and getBlogsByAuthor return the
\* posts whose category is, whose tags contain, or whose authorId is the
\* given value, character for character, in the order of the collection;
\* the category and tag filters of the home page keep the posts that pass
\* both; none of them changes the collection.
C17_ExactFilters ==
  /\ [](/\ query.op = "getBlogsByCategory"
             => result = Kept(blogs, {b \in Range(blogs) : b.category = query.category})
        /\ query.op = "getBlogsByTag"
             => result = Kept(blogs, {b \in Range(blogs) :
                                       \E k \in DOMAIN b.tags : b.tags[k] = query.tag})
        /\ query.op = "getBlogsByAuthor"
             => result = Kept(blogs, {b \in Range(blogs) : b.authorId = query.authorId})
        /\ (query.op = "filteredBlogs" /\ query.text = "")
             => Range(result) =
                  {b \in Range(blogs) :
                     /\ query.category # "" => b.category = query.category
                     /\ query.tag # "" => \E k \in DOMAIN b.tags : b.tags[k] = query.tag})
  /\ [][query'.op \in {"getBlogsByCategory", "getBlogsByTag", "getBlogsByAuthor",
                        "filteredBlogs"}
          => blogs' = blogs]_vars

\* C17 witness: getBlogsByCategory("programming") has returned one post
\* from a collection that also holds a post of the category "Programming".
C17_Witness ==
  /\ query.op = "getBlogsByCategory"
  /\ query.category = "programming"
  /\ Len(result) = 1
  /\ \E b \in Range(blogs) : b.category = "Programming"

\* The number of times x occurs in the list s.
Count(s, x) == Cardinality({k \in DOMAIN s : s[k] = x})

\* C18: getSortedBlogs returns a permutation of the list it is given and
\* leaves that list as it was; by likes or views the result is
\* non-decreasing when the order is asc and non-increasing when it is desc,
\* and by recent with desc the newest createdAt comes first.
C18_SortPermutation ==
  [][GetSortedBlogs
       => /\ blogs' = blogs
          /\ Len(result') = Len(blogs)
          /\ \A b \in Range(blogs) \cup Range(result') :
               Count(result', b) = Count(blogs, b)
          /\ \A i, j \in DOMAIN result' :
               i < j =>
                 /\ (sortBy = "likes" /\ sortOrder = "asc")
                      => Len(result'[i].likes) <= Len(result'[j].likes)
                 /\ (sortBy = "likes" /\ sortOrder = "desc")
                      => Len(result'[i].likes) >= Len(result'[j].likes)
                 /\ (sortBy = "views" /\ sortOrder = "asc")
                      => result'[i].views <= result'[j].views
                 /\ (sortBy = "views" /\ sortOrder = "desc")
                      => result'[i].views >= result'[j].views
                 /\ (sortBy = "recent" /\ sortOrder = "desc")
                      => result'[i].createdAt >= result'[j].createdAt]_vars

\* C18 witness: a sort by likes in ascending order has reordered three
\* posts with different numbers of likes.
C18_Witness ==
  /\ query.op = "getSortedBlogs"
  /\ sortBy = "likes" /\ sortOrder = "asc"
  /\ Len(result) = 3
  /\ result # blogs
  /\ Len(result[1].likes) < Len(result[2].likes)
  /\ Len(result[2].likes) < Len(result[3].likes)

\* The sort key of a post.
Key(b, by) ==
  CASE by = "likes" -> Len(b.likes)
    [] by = "views" -> b.views
    [] OTHER        -> b.createdAt

\* The position of the post x in the list s.
Pos(s, x) == CHOOSE k \in DOMAIN s : s[k] = x

\* C19: two posts with equal sort keys are in the result of getSortedBlogs
\* in the order they have in the list it was given, for every sortBy and
\* order.
C19_SortStable ==
  [][GetSortedBlogs
       => \A i, j \in DOMAIN result' :
            (i < j /\ Key(result'[i], sortBy) = Key(result'[j], sortBy))
              => Pos(blogs, result'[i]) < Pos(blogs, result'[j])]_vars

\* C19 witness: the list b, c, a, in which a and b have the same createdAt
\* and the same views, has been sorted to c, b, a.
C19_Witness ==
  /\ query.op = "getSortedBlogs"
  /\ IdsOf(blogs) = <<"b", "c", "a">>
  /\ IdsOf(result) = <<"c", "b", "a">>

Reverse(s) == [k \in DOMAIN s |-> s[Len(s) + 1 - k]]

\* C20: sorting the result of a sort by recent, desc once more by recent,
\* asc gives its exact reverse if and only if no two posts of the list have
\* the same createdAt.
C20_ReverseIffNoTies ==
  [][(GetSortedBlogs /\ sortBy = "recent" /\ sortOrder = "desc")
       => ((getSortedBlogs(result', "recent", "asc").sorted = Reverse(result'))
             <=> (\A i, j \in DOMAIN blogs :
                    i # j => blogs[i].createdAt # blogs[j].createdAt))]_vars

\* C20 witness: the list a, c, b with the tie of a and b has been sorted by
\* recent, desc to c, a, b, and sorting that by recent, asc gives a, b, c,
\* which is not its reverse.
C20_Witness ==
  /\ query.op = "getSortedBlogs"
  /\ sortBy = "recent" /\ sortOrder = "desc"
  /\ IdsOf(blogs) = <<"a", "c", "b">>
  /\ IdsOf(result) = <<"c", "a", "b">>
  /\ IdsOf(getSortedBlogs(result, "recent", "asc").sorted) = <<"a", "b", "c">>

\* The storage item once the scheduled effects effs have run, none of which
\* is the mount effect.
RECURSIVE Drain(_, _)
Drain(effs, item) ==
  IF effs = <<>> THEN item
  ELSE Drain(Tail(effs), saveEffect(Head(effs).blogs, item))

\* The item is a snapshot that can be read: an array of posts.
Readable(item) ==
  /\ item # NoItem /\ item # Corrupt
  /\ item[2][1] = "array"
  /\ \A i \in DOMAIN item[2][2] : item[2][2][i] # [null |-> TRUE]

C22_SnapshotFollows == effects = <<>> => storage = saveToStorage(blogs)

\* C23: once the save effect of a collection that is not empty has run, the
\* list the mount effect of the next start reconstructs from the stored
\* item is that collection: the same posts in the same order, every
\* createdAt and updatedAt and the createdAt of every comment being the date
\* that was saved; and a mount effect that finds no item loads null and
\* keeps the seed set.
C23_SaveLoadRoundTrip ==
  /\ []((effects = <<>> /\ blogs # <<>>)
          => mountEffect(sampleBlogs, storage).blogsWithDates = blogs)
  /\ [][(RunEffect /\ Head(effects).effect = "mount" /\ storage = NoItem)
          => /\ loadFromStorage(storage) = JsonNull
             /\ blogs' = sampleBlogs]_vars

\* C23 witness: after a restart the collection is the stored one, in which
\* seed post 1 has its three comments with their dates.
C23_Witness ==
  /\ steps = 1
  /\ outcome.op = "save"
  /\ effects = <<>>
  /\ Len(blogs) = 5
  /\ \E b \in Range(blogs) :
       /\ b.id = "1"
       /\ [k \in DOMAIN b.comments |-> b.comments[k].createdAt]
            = <<StartTime - 3, StartTime - 2, StartTime - 1>>

\* C27: when the application is restarted after the save effect of the
\* collection has run, the start ends with the same collection: a post
\* that was deleted is not in it and a post that was created is.
C27_RestartPreserves ==
  [][Restart => startup(storage).blogs = blogs]_vars

\* The post b without its field f.
Without(b, f) == [g \in DOMAIN b \ {f} |-> b[g]]

\* Going from the collection bs to cs, only the field f of posts with the
\* given id has changed.
OnlyField(bs, cs, id, f) ==
  /\ Len(cs) = Len(bs)
  /\ \A i \in DOMAIN bs :
       /\ Without(cs[i], f) = Without(bs[i], f)
       /\ bs[i].id # id => cs[i] = bs[i]

\* C24: toggleLikeBlog changes nothing but the likes, incrementViews nothing
\* but the views, addComment and deleteComment nothing but the comments of
\* the posts with the given id, so updatedAt of every post stays; a step
\* that is not an updateBlog leaves updatedAt of every post it keeps as it
\* was.
C24_EngagementFrame ==
  [][/\ \A id \in IdInputs :
          /\ ToggleLikeBlog(id) => OnlyField(blogs, blogs', id, "likes")
          /\ IncrementViews(id) => OnlyField(blogs, blogs', id, "views")
          /\ (\E anon \in BOOLEAN, reads \in Reads2(now), draw \in RandomDraws :
                AddComment(id, anon, reads, draw))
               => OnlyField(blogs, blogs', id, "comments")
          /\ (\E cid \in CommentIdInputs : DeleteComment(id, cid))
               => OnlyField(blogs, blogs', id, "comments")
     /\ outcome'.op \notin {"updateBlog", "createBlog"}
          => \A b \in Range(blogs') :
               \E a \in Range(blogs) : a.id = b.id /\ a.updatedAt = b.updatedAt
     /\ (outcome'.op = "createBlog" /\ outcome'.thrown = "") => Tail(blogs') = blogs]_vars

\* C24 witness: a like on seed post 1 has been toggled and its updatedAt is
\* still the date of the seed.
C24_Witness ==
  /\ outcome.op = "toggleLikeBlog"
  /\ \E b \in Range(blogs) :
       /\ b.id = "1"
       /\ Len(b.likes) # 3
       /\ b.updatedAt = SeedTime(15, 10, 30)

\* C25: the spotlight list is the first 6 posts, or all of them when there
\* are fewer, of the whole collection sorted by the current sortBy and
\* sortOrder, whatever the isSpotlight flags of the posts and the search,
\* category and tag filters in force.
C25_SpotlightTopOfSort ==
  [][SpotlightBlogs
       => LET sorted == getSortedBlogs(blogs, sortBy, sortOrder).sorted
          IN /\ Len(result') = (IF Len(blogs) < 6 THEN Len(blogs) ELSE 6)
             /\ \A k \in DOMAIN result' : result'[k] = sorted[k]]_vars

\* C25 witness: with the search "ai" and the category "Programming" in
\* force, the spotlight list of a collection of seven posts has six posts,
\* one of them without the isSpotlight flag and of another category.
C25_Witness ==
  /\ query.op = "spotlightBlogs"
  /\ query.text = "ai" /\ query.category = "Programming"
  /\ Len(blogs) = 7
  /\ Len(result) = 6
  /\ \E k \in DOMAIN result : ~result[k].isSpotlight /\ result[k].category = "Travel"

\* C26: in every reachable state getFullBlogContent returns, for the id of a
\* post of the collection, the content that post holds, and for an id no
\* post has, the empty string.
C26_FullContentCurrent ==
  /\ \A i \in DOMAIN blogs :
        (\A j \in DOMAIN blogs : blogs[j].id = blogs[i].id => j = i)
          => getFullBlogContent(blogs, fullContentStorage, blogs[i].id) = blogs[i].content
  /\ \A id \in IdInputs \ Range(IdsOf(blogs)) :
        getFullBlogContent(blogs, fullContentStorage, id) = <<>>

C28_CommentsInsertionOrder ==
  /\ [](\A b \in Range(blogs) : \A j, k \in DOMAIN b.comments :
          j < k => b.comments[j].createdAt <= b.comments[k].createdAt)
  /\ [][(\E id \in IdInputs : RenderComments(id)) => blogs' = blogs]_vars

\* C30: in every reachable state in which the carousel has posts to show,
\* currentIndex is the position of one of them, and progress is between 0
\* and 100.
C30_CarouselInRange ==
  /\ Len(displayed) > 0 => currentIndex \in 0 .. Len(displayed) - 1
  /\ progress \in 0 .. 100

====
